---- MODULE Spec2Model ----
(***************************************************************************)
(* Orchestration engine of Savage-Scraper (src/module.py): resume filter,  *)
(* partitioner, worker loop, progress/result channels, output writer and   *)
(* the supervisor run_multiprocess_scraper with its shutdown sequence.     *)
(*                                                                         *)
(* A work item is modelled by the value of its key field (the field that   *)
(* _get_progress_tracking_key and _get_resume_key name, one field as in    *)
(* Products.py and Products_urls.py); "" is a missing or empty field.      *)
(***************************************************************************)
EXTENDS Integers, Sequences, FiniteSets, TLC

\* ------------------------------------------------------------------ bounds
MaxItems == 3
MaxRunItems == 2
MaxProcs == 2
MaxRecords == 2
MaxAppends == 2
MaxAppenders == 2
MaxCrashes == 1
MaxClock == 2
MaxSplitItems == 5
MaxSplitProcs == 3
MaxWrites == 3
MaxTotal == 3
MaxTime == 24

\* ------------------------------------------------------------- value sets
\* key values of items; "" is the missing/empty field
ItemKeys == {"a", "b", "c", ""}
RunKeys == {"a", "b", ""}
ProcCounts == 1..MaxProcs

Max(x, y) == IF x >= y THEN x ELSE y
Min(x, y) == IF x <= y THEN x ELSE y

SeqsUpTo(S, n) == UNION {[1..k -> S] : k \in 0..n}

RECURSIVE Flatten(_)
Flatten(bs) == IF bs = <<>> THEN <<>> ELSE Head(bs) \o Flatten(Tail(bs))

Range(s) == {s[i] : i \in 1..Len(s)}

\* ------------------------------------------------------------ partitioner
\* batch_size = max(1, len(items) // num_processes)
batch_size_ceil(items, n) == Max(1, (Len(items) + n - 1) \div n)
batch_size(items, n) == Max(1, Len(items) \div n)

\* for i in range(0, len(items), batch_size): batches.append(items[i:i+batch_size])
SliceBatches(items, bs) ==
    [k \in 1..((Len(items) + bs - 1) \div bs) |->
        SubSeq(items, (k - 1) * bs + 1, Min(k * bs, Len(items)))]

\* while len(batches) > num_processes and len(batches) > 1:
\*     last_batch = batches.pop(); batches[-1].extend(last_batch)
RECURSIVE MergeTrailing(_, _)
MergeTrailing(bs, n) ==
    IF Len(bs) > n /\ Len(bs) > 1
    THEN MergeTrailing(
            [k \in 1..(Len(bs) - 1) |->
                IF k = Len(bs) - 1 THEN bs[k] \o bs[k + 1] ELSE bs[k]], n)
    ELSE bs

\* the same loop dropping the popped batch instead of extending the last one
RECURSIVE DropTrailing(_, _)
DropTrailing(bs, n) ==
    IF Len(bs) > n /\ Len(bs) > 1
    THEN DropTrailing(SubSeq(bs, 1, Len(bs) - 1), n)
    ELSE bs

split_items_dropping(items, n) ==
    IF items = <<>> THEN <<>>
    ELSE DropTrailing(SliceBatches(items, batch_size(items, n)), n)

split_items_ceil(items, n) ==
    IF items = <<>> THEN <<>>
    ELSE MergeTrailing(SliceBatches(items, batch_size_ceil(items, n)), n)

split_items_into_batches(items, n) ==
    IF items = <<>> THEN <<>>
    ELSE MergeTrailing(SliceBatches(items, batch_size(items, n)), n)

\* ------------------------------------------------------------ output file
\* The output file is [exists, rows]; a row is a header line or one record.
\* A record row carries the value of its resume-key column (key) and the
\* identity of the record: producing worker w, position i of the item in the
\* worker's batch, number j of the record among the item's records.
ResumeKeyName == "k"

HeaderRow == [hdr |-> TRUE, key |-> ResumeKeyName, w |-> 0, i |-> 0, j |-> 0]

DataRow(key, w, i, j) == [hdr |-> FALSE, key |-> key, w |-> w, i |-> i, j |-> j]

\* a row left in the output file by an earlier run
PriorRow(key) == DataRow(key, 0, 0, 0)

NoFile == [exists |-> FALSE, rows |-> <<>>]

FileOf(rows) == [exists |-> TRUE, rows |-> rows]

\* pd.read_csv takes the first line as the header and every later line as data
\* (a header line written again further down is read back as a data row whose
\* fields are the column names)
DataRowsOf(file) == IF file.rows = <<>> THEN <<>> ELSE Tail(file.rows)

KeyColumn(file) == [n \in 1..Len(DataRowsOf(file)) |-> DataRowsOf(file)[n].key]

\* the reader infers the column type: an empty field is NaN; a column whose
\* non-empty fields all parse as integers is int64, or float64 when it also
\* holds a NaN; .dropna().astype(str) then renders 07 as "7" or "7.0"
NumericKeys == {"07"}
IntStr(v) == IF v = "07" THEN "7" ELSE v
FloatStr(v) == IF v = "07" THEN "7.0" ELSE v

ParsedKeys(col) ==
    LET vals == Range(col)
        nonnull == vals \ {""}
    IN  IF nonnull = {} THEN {}
        ELSE IF nonnull \subseteq NumericKeys
             THEN IF "" \in vals THEN {FloatStr(v) : v \in nonnull}
                                 ELSE {IntStr(v) : v \in nonnull}
             ELSE nonnull

\* a line the CSV reader cannot tokenize (more fields than the header has)
MalformedRow == [hdr |-> FALSE, key |-> "a,b", w |-> 0, i |-> 0, j |-> 0]

Unparsable(file) == \E n \in 1..Len(file.rows) : file.rows[n] = MalformedRow

\* SavageScraper._load_existing_results
load_existing_results(file) ==
    IF ~file.exists THEN {}
    ELSE IF file.rows = <<>> THEN {}                  \* read_csv raises, caught
    ELSE IF Unparsable(file) THEN {}                  \* read_csv raises, caught
    ELSE IF DataRowsOf(file) = <<>> THEN {}           \* existing_df.empty
    ELSE IF file.rows[1].key # ResumeKeyName THEN {}  \* column not in the file
    ELSE ParsedKeys(KeyColumn(file))

SelectKept(items, existing_keys) ==
    SelectSeq(items, LAMBDA item : item # "" /\ item \notin existing_keys)

SelectNotIn(items, existing_keys) ==
    SelectSeq(items, LAMBDA item : item \notin existing_keys)

\* the filter without the early return of lines 161-162
filter_without_early_return(items, file) ==
    SelectKept(items, load_existing_results(file))

\* SavageScraper._filter_items_for_resume
filter_items_for_resume(items, file) ==
    LET existing_keys == load_existing_results(file)
    IN  IF existing_keys = {} THEN items ELSE SelectKept(items, existing_keys)

\* ------------------------------------------------------- progress tracker
\* a message of the progress channel: the string 'DONE' or an integer count
DoneMsg == [done |-> TRUE, n |-> 0]
CountMsg(n) == [done |-> FALSE, n |-> n]

\* ProgressTracker.__init__
NewTracker == [processed |-> 0, total_output |-> 0, failed |-> 0]

\* an update that counts a failed item as failed only, not as processed
tracker_update_failed_only(t, count) ==
    IF count = -1
    THEN [t EXCEPT !.failed = @ + 1]
    ELSE IF count = 0
    THEN [t EXCEPT !.processed = @ + 1]
    ELSE [t EXCEPT !.total_output = @ + count, !.processed = @ + 1]

\* ProgressTracker.update
tracker_update(t, count) ==
    IF count = -1
    THEN [t EXCEPT !.failed = @ + 1, !.processed = @ + 1]
    ELSE IF count = 0
    THEN [t EXCEPT !.processed = @ + 1]
    ELSE [t EXCEPT !.total_output = @ + count, !.processed = @ + 1]

\* line 732: the seconds that must have passed since last_update
LogInterval == 10

\* an update that logs a summary every time
update_logs_always(now, last, t, total) == TRUE

\* lines 731-733: the condition under which update logs a summary
update_logs(now, last, t, total) ==
    now - last > LogInterval \/ t.processed >= total

\* nothing was logged
NoSummary == [logged |-> FALSE, processed |-> 0, total |-> 0, output |-> 0,
              failed |-> 0]

\* ProgressTracker._log_progress: returns at once when no input item was
\* processed, else logs processed/total, the output items and the failed items
log_progress(t, total) ==
    IF t.processed = 0 THEN NoSummary
    ELSE [logged |-> TRUE, processed |-> t.processed, total |-> total,
          output |-> t.total_output, failed |-> t.failed]

\* ------------------------------------------------------------ stop flags
\* LoggerProcess.__init__ (line 562) and OutputWriterProcess.__init__ (line
\* 667): should_stop = False. The objects are created in the supervisor;
\* mp.Process(target=obj.run).start() gives the new process its own copy
NoStop == [sup_writer |-> FALSE, writer |-> FALSE,
           sup_logger |-> FALSE, logger |-> FALSE]

\* --------------------------------------------------------- output manager
\* a message of the result channel: a record, or None (the stop sentinel)
NoneMsg == [none |-> TRUE, key |-> "", w |-> 0, i |-> 0, j |-> 0]
RecordMsg(key, w, i, j) == [none |-> FALSE, key |-> key, w |-> w, i |-> i, j |-> j]

\* df_result.to_csv(f, index=False, header=write_header): the lines written
CsvRows(write_header, r) ==
    (IF write_header THEN <<HeaderRow>> ELSE <<>>)
        \o <<DataRow(r.key, r.w, r.i, r.j)>>

\* line 643: write_header = file_is_empty or not self.headers_written
write_header(file_is_empty, written) == file_is_empty \/ ~written

\* OutputManager.append_single_result, lines 631-645, by a single appender:
\* the lines are appended to the file opened 'a'
append_single_result(file, written, r) ==
    [file EXCEPT !.rows = @ \o CsvRows(write_header(file.rows = <<>>, written), r)]

\* ------------------------------------------------------------------ state
VARIABLES
    items_to_scrape,     \* the item list given to the run / to the function
    num_processes,       \* the process count given
    batches,             \* the batches computed by the partitioner
    ppc,                 \* position of the function-level specifications
    outfile,             \* the output file of the run key
    filtered,            \* items_to_scrape after resume filtering (line 826)
    sup_pc,              \* position of run_multiprocess_scraper
    nstarted,            \* len(processes): worker processes started so far
    completed_processes, \* DONE messages counted by the monitoring loop
    joinidx,             \* index of the worker the join loop is at
    tracker,             \* the ProgressTracker's counters
    anomalies,           \* workers logged as died with a non-zero exit code
    termreq,             \* workers that were sent terminate()
    killreq,             \* workers that were sent kill()
    summary,             \* what the final _log_progress call logged, if anything
    crashed,             \* workers that died without a terminate() request
    wpc,                 \* position of each worker in process_batch
    widx,                \* 1-based position of each worker in its batch
    wpending,            \* len(results) of the item whose records were pushed
    wdriver,             \* whether the worker holds a WebDriver
    wlog,                \* history: what each worker put on the progress channel
    progress_queue,      \* the progress channel
    output_queue,        \* the result channel
    pushed,              \* history: every record put on the result channel
    owpc,                \* state of the OutputWriter process
    headers_written,     \* OutputManager.headers_written in the writer process
    items_written,       \* OutputWriterProcess.items_written
    lpc,                 \* state of the LoggerProcess process
    log_queue,           \* the log channel: stop sentinel and closing event
    apc,                 \* position of each appender in append_single_result
    aempty,              \* file_is_empty as read by each appender (line 634)
    ahw,                 \* headers_written of each appender's OutputManager
    abuf,                \* lines written to the handle and not yet flushed
    adone,               \* appends completed by each appender
    flock_owner,         \* holder of the advisory lock on the file, 0 if free
    clock,               \* int(time.time()), in seconds since the start
    sidefiles,           \* the backup files, by the second in their name
    failed,              \* history: records whose append to the file failed
    last_update,         \* ProgressTracker.last_update
    emitted,             \* history: the summaries ProgressTracker.update logged
    should_stop,         \* the should_stop flag of each copy of the satellite
                         \* objects: the supervisor's and the process's own
    interrupt            \* the supervisor's KeyboardInterrupt: none, caught
                         \* (line 911), or propagating out of the function

supvars == <<sup_pc, nstarted, completed_processes, joinidx, tracker, anomalies,
             termreq, killreq, summary>>
workervars == <<wpc, widx, wpending, wdriver, wlog, crashed>>
writervars == <<owpc, headers_written, items_written>>
loggervars == <<lpc, log_queue>>
inputvars == <<items_to_scrape, num_processes>>
fallbackvars == <<clock, sidefiles, failed>>
timervars == <<last_update, emitted>>
sinkvars == <<apc, aempty, ahw, abuf, adone, flock_owner, fallbackvars>>

vars == <<items_to_scrape, num_processes, batches, ppc, outfile, filtered,
          sup_pc, nstarted, completed_processes, joinidx, tracker, anomalies,
          termreq, killreq, summary, crashed, wpc, widx, wpending, wdriver,
          wlog, progress_queue,
          output_queue, pushed, owpc, headers_written, items_written, lpc,
          log_queue, apc, aempty, ahw, abuf, adone, flock_owner, clock,
          sidefiles, failed, last_update, emitted, should_stop,
          interrupt>>

Procs == 1..MaxProcs
Appenders == 1..MaxAppenders

\* no appender of the output-sink specification is at work
SinkIdle ==
    /\ apc = [p \in Appenders |-> "idle"]
    /\ aempty = [p \in Appenders |-> FALSE]
    /\ ahw = [p \in Appenders |-> FALSE]
    /\ abuf = [p \in Appenders |-> <<>>]
    /\ adone = [p \in Appenders |-> 0]
    /\ flock_owner = 0
    /\ clock = 0
    /\ sidefiles = [t \in 0..MaxClock |-> <<>>]
    /\ failed = {}

\* everything a run holds before run_multiprocess_scraper is entered
RunIdle ==
    /\ batches = <<>>
    /\ filtered = <<>>
    /\ sup_pc = "entry"
    /\ nstarted = 0
    /\ completed_processes = 0
    /\ joinidx = 1
    /\ tracker = NewTracker
    /\ last_update = 0
    /\ emitted = <<>>
    /\ should_stop = NoStop
    /\ interrupt = "none"
    /\ anomalies = {}
    /\ termreq = {}
    /\ killreq = {}
    /\ summary = NoSummary
    /\ crashed = {}
    /\ wpc = [w \in Procs |-> "notstarted"]
    /\ widx = [w \in Procs |-> 1]
    /\ wpending = [w \in Procs |-> 0]
    /\ wdriver = [w \in Procs |-> FALSE]
    /\ wlog = [w \in Procs |-> <<>>]
    /\ progress_queue = <<>>
    /\ output_queue = <<>>
    /\ pushed = {}
    /\ owpc = "notstarted"
    /\ headers_written = FALSE
    /\ items_written = 0
    /\ lpc = "notstarted"
    /\ log_queue = <<>>

runvars == <<outfile, filtered, sup_pc, nstarted, completed_processes, joinidx,
             tracker, anomalies, termreq, killreq, summary, crashed, wpc, widx,
             wpending, wdriver, wlog, progress_queue, output_queue, pushed,
             owpc, headers_written,
             items_written, lpc, log_queue>>

\* ------------------------------------------- specification: partitioner
InitPartition ==
    /\ items_to_scrape \in SeqsUpTo(ItemKeys, MaxItems)
    /\ num_processes \in ProcCounts
    /\ ppc = "input"
    /\ outfile = NoFile
    /\ RunIdle
    /\ SinkIdle

Partition ==
    /\ ppc = "input"
    /\ batches' = split_items_into_batches(items_to_scrape, num_processes)
    /\ ppc' = "partitioned"
    /\ UNCHANGED <<inputvars, timervars, should_stop, interrupt, runvars,
                   sinkvars>>

NextPartition == Partition

SpecPartition == InitPartition /\ [][NextPartition]_vars

\* the partitioner on longer lists and more processes (the sizes of the
\* batches depend on the length of the list only, two keys are enough)
InitSplit ==
    /\ items_to_scrape \in SeqsUpTo({"a", "b"}, MaxSplitItems)
    /\ num_processes \in 1..MaxSplitProcs
    /\ ppc = "input"
    /\ outfile = NoFile
    /\ RunIdle
    /\ SinkIdle

NextSplit == Partition

SpecSplit == InitSplit /\ [][NextSplit]_vars

\* C1: for every item list I and process count n >= 1 the batches returned by
\* split_items_into_batches concatenate, in order, to I; there are at most n
\* of them; and none is empty (no batch at all when I is empty).
C1_PartitionIsOrderedCover ==
    ppc = "partitioned" =>
        /\ Flatten(batches) = items_to_scrape
        /\ Len(batches) <= num_processes
        /\ \A k \in 1..Len(batches) : batches[k] # <<>>
        /\ (items_to_scrape = <<>> => batches = <<>>)

\* a case where the trailing batches had to be merged
C1_Witness ==
    /\ ppc = "partitioned"
    /\ Len(items_to_scrape) = 3
    /\ num_processes = 2
    /\ Len(batches) = 2

\* C9 (as stated): partitioning [a, b, c] with n = 2 yields [[a, b], [c]].
C9_AsStated ==
    (ppc = "partitioned" /\ items_to_scrape = <<"a", "b", "c">> /\ num_processes = 2)
        => batches = << <<"a", "b">>, <<"c">> >>

\* C9 (amended): partitioning [a, b, c] with n = 2 yields [[a], [b, c]]:
\* the batch size is 3 div 2 = 1 and the third slice is merged into the second.
C9_ThreeItemsTwoProcs ==
    (ppc = "partitioned" /\ items_to_scrape = <<"a", "b", "c">> /\ num_processes = 2)
        => batches = << <<"a">>, <<"b", "c">> >>

C9_Witness ==
    /\ ppc = "partitioned"
    /\ items_to_scrape = <<"a", "b", "c">>
    /\ num_processes = 2
    /\ batches = << <<"a">>, <<"b", "c">> >>

\* ============================================================== the run
\* what no worker step changes
notworker == <<inputvars, timervars, should_stop, interrupt,
               batches, ppc, outfile, filtered, supvars, writervars,
               loggervars, sinkvars>>

\* -------------------------------------------------------------- workers
Alive(w) == wpc[w] \in {"starting", "loop", "signal", "finally", "completing"}

BatchOf(w) == batches[w]

LogSignal(w, i, n, cause) ==
    Append(wlog[w], [i |-> i, n |-> n, done |-> FALSE, cause |-> cause])

\* a single put(-1) for the whole batch
FailedOnce(batch) == <<CountMsg(-1)>>

\* for _ in items_batch: progress_queue.put(-1)
FailedForEach(batch) == [k \in 1..Len(batch) |-> CountMsg(-1)]

LogFailedForEach(w, cause) ==
    wlog[w] \o [k \in 1..Len(BatchOf(w)) |->
                    [i |-> k, n |-> -1, done |-> FALSE, cause |-> cause]]

AfterItem(w) == IF widx[w] + 1 > Len(BatchOf(w)) THEN "finally" ELSE "loop"

\* process_batch, lines 426-439: logging set up, _init_driver succeeds
WorkerInitOk(w) ==
    /\ wpc[w] = "starting"
    /\ wpc' = [wpc EXCEPT ![w] = "loop"]
    /\ wdriver' = [wdriver EXCEPT ![w] = TRUE]
    /\ UNCHANGED <<notworker, widx, wpending, wlog, crashed, progress_queue,
                   output_queue, pushed>>

\* process_batch, lines 433-438: _init_driver returns False
WorkerInitFails(w) ==
    /\ wpc[w] = "starting"
    /\ progress_queue' = progress_queue \o FailedForEach(BatchOf(w))
    /\ wlog' = [wlog EXCEPT ![w] = LogFailedForEach(w, "initfail")]
    /\ wpc' = [wpc EXCEPT ![w] = "finally"]
    /\ UNCHANGED <<notworker, widx, wpending, wdriver, crashed, output_queue,
                   pushed>>

\* the same step reporting the item without tracking key as failed, put(-1)
WorkerSkipAsFailed(w) ==
    /\ wpc[w] = "loop"
    /\ BatchOf(w)[widx[w]] = ""
    /\ progress_queue' = Append(progress_queue, CountMsg(-1))
    /\ wlog' = [wlog EXCEPT ![w] = LogSignal(w, widx[w], -1, "skip")]
    /\ widx' = [widx EXCEPT ![w] = @ + 1]
    /\ wpc' = [wpc EXCEPT ![w] = AfterItem(w)]
    /\ UNCHANGED <<notworker, wpending, wdriver, crashed, output_queue, pushed>>

\* lines 443-446: the item has no tracking key
WorkerSkip(w) ==
    /\ wpc[w] = "loop"
    /\ BatchOf(w)[widx[w]] = ""
    /\ progress_queue' = Append(progress_queue, CountMsg(0))
    /\ wlog' = [wlog EXCEPT ![w] = LogSignal(w, widx[w], 0, "skip")]
    /\ widx' = [widx EXCEPT ![w] = @ + 1]
    /\ wpc' = [wpc EXCEPT ![w] = AfterItem(w)]
    /\ UNCHANGED <<notworker, wpending, wdriver, crashed, output_queue, pushed>>

\* a worker that pushes the records of an item and goes on to the next item
\* without having signalled this one
WorkerPushAhead(w) ==
    /\ wpc[w] = "loop"
    /\ BatchOf(w)[widx[w]] # ""
    /\ \E n \in 1..MaxRecords :
        LET recs == [j \in 1..n |-> RecordMsg(BatchOf(w)[widx[w]], w, widx[w], j)]
        IN  /\ output_queue' = output_queue \o recs
            /\ pushed' = pushed \cup Range(recs)
    /\ widx' = [widx EXCEPT ![w] = @ + 1]
    /\ wpc' = [wpc EXCEPT ![w] = AfterItem(w)]
    /\ UNCHANGED <<notworker, wpending, wdriver, wlog, crashed, progress_queue>>

\* the same step holding the records back: the worker goes on to signal their
\* number, none was put on the result channel
WorkerPushUnsent(w) ==
    /\ wpc[w] = "loop"
    /\ BatchOf(w)[widx[w]] # ""
    /\ \E n \in 1..MaxRecords : wpending' = [wpending EXCEPT ![w] = n]
    /\ wpc' = [wpc EXCEPT ![w] = "signal"]
    /\ UNCHANGED <<notworker, widx, wdriver, wlog, crashed, progress_queue,
                   output_queue, pushed>>

\* lines 450-454: _process_single_item returns n >= 1 records; each is put on
\* the result channel
WorkerPush(w) ==
    /\ wpc[w] = "loop"
    /\ BatchOf(w)[widx[w]] # ""
    /\ \E n \in 1..MaxRecords :
        LET recs == [j \in 1..n |-> RecordMsg(BatchOf(w)[widx[w]], w, widx[w], j)]
        IN  /\ output_queue' = output_queue \o recs
            /\ pushed' = pushed \cup Range(recs)
            /\ wpending' = [wpending EXCEPT ![w] = n]
    /\ wpc' = [wpc EXCEPT ![w] = "signal"]
    /\ UNCHANGED <<notworker, widx, wdriver, wlog, crashed, progress_queue>>

\* the same step signalling one item processed, put(1), whatever len(results)
WorkerSignalOne(w) ==
    /\ wpc[w] = "signal"
    /\ progress_queue' = Append(progress_queue, CountMsg(1))
    /\ wlog' = [wlog EXCEPT ![w] = LogSignal(w, widx[w], 1, "results")]
    /\ wpending' = [wpending EXCEPT ![w] = 0]
    /\ widx' = [widx EXCEPT ![w] = @ + 1]
    /\ wpc' = [wpc EXCEPT ![w] = AfterItem(w)]
    /\ UNCHANGED <<notworker, wdriver, crashed, output_queue, pushed>>

\* lines 456-458: progress_queue.put(len(results))
WorkerSignal(w) ==
    /\ wpc[w] = "signal"
    /\ progress_queue' = Append(progress_queue, CountMsg(wpending[w]))
    /\ wlog' = [wlog EXCEPT ![w] = LogSignal(w, widx[w], wpending[w], "results")]
    /\ wpending' = [wpending EXCEPT ![w] = 0]
    /\ widx' = [widx EXCEPT ![w] = @ + 1]
    /\ wpc' = [wpc EXCEPT ![w] = AfterItem(w)]
    /\ UNCHANGED <<notworker, wdriver, crashed, output_queue, pushed>>

\* how a call of _process_single_item that yields no record ended:
\*   "empty"         it returned [] (navigation failed, line 508, or no
\*                   element gave a result)
\*   "raised_inside" an exception was raised while processing the item and
\*                   was caught by _process_single_item itself (lines 537-539),
\*                   which returns []
\*   "raised_out"    the call raised to process_batch (an overriding
\*                   _process_single_item that lets an exception escape)
NoResultOutcomes == {"empty", "raised_inside", "raised_out"}

SignalOfOutcome(outcome) == IF outcome = "raised_out" THEN -1 ELSE 0

\* lines 450, 459-461 (results empty) and 463-466 (the call raised)
WorkerNoResult(w) ==
    /\ wpc[w] = "loop"
    /\ BatchOf(w)[widx[w]] # ""
    /\ \E outcome \in NoResultOutcomes :
        /\ progress_queue' =
             Append(progress_queue, CountMsg(SignalOfOutcome(outcome)))
        /\ wlog' = [wlog EXCEPT ![w] =
                      LogSignal(w, widx[w], SignalOfOutcome(outcome), outcome)]
    /\ widx' = [widx EXCEPT ![w] = @ + 1]
    /\ wpc' = [wpc EXCEPT ![w] = AfterItem(w)]
    /\ UNCHANGED <<notworker, wpending, wdriver, crashed, output_queue, pushed>>

\* lines 470-489: an exception unwinds the body of process_batch (outside the
\* per-item handler); the handler puts -1 once per item of the batch
WorkerInternalError(w) ==
    /\ wpc[w] \in {"starting", "loop", "signal"}
    /\ progress_queue' = progress_queue \o FailedForEach(BatchOf(w))
    /\ wlog' = [wlog EXCEPT ![w] = LogFailedForEach(w, "unwind")]
    /\ wpc' = [wpc EXCEPT ![w] = "finally"]
    /\ UNCHANGED <<notworker, widx, wpending, wdriver, crashed, output_queue,
                   pushed>>

\* what the finally block puts last on the progress channel
FinallyPutsNothing == <<>>
FinallyPuts == <<DoneMsg>>

\* the finally block going on to line 499 without quitting the driver
WorkerQuitSkipped(w) ==
    /\ wpc[w] = "finally"
    /\ wpc' = [wpc EXCEPT ![w] = "completing"]
    /\ UNCHANGED <<notworker, widx, wpending, wdriver, wlog, crashed,
                   progress_queue, output_queue, pushed>>

\* lines 490-497: the finally block quits the driver if the worker holds one
WorkerQuit(w) ==
    /\ wpc[w] = "finally"
    /\ wdriver' = [wdriver EXCEPT ![w] = FALSE]
    /\ wpc' = [wpc EXCEPT ![w] = "completing"]
    /\ UNCHANGED <<notworker, widx, wpending, wlog, crashed, progress_queue,
                   output_queue, pushed>>

\* lines 499-500: the finally block puts 'DONE'; the process then ends with
\* exit code 0
WorkerFinally(w) ==
    /\ wpc[w] = "completing"
    /\ progress_queue' = progress_queue \o FinallyPuts
    /\ wlog' = [wlog EXCEPT ![w] =
                  @ \o [k \in 1..Len(FinallyPuts) |->
                          [i |-> 0, n |-> 0, done |-> TRUE, cause |-> "done"]]]
    /\ wpc' = [wpc EXCEPT ![w] = "exited"]
    /\ UNCHANGED <<notworker, widx, wpending, wdriver, crashed, output_queue,
                   pushed>>

\* the memory of a process that ended by a signal or a crash is gone
KilledWorker(w) ==
    /\ wpc' = [wpc EXCEPT ![w] = "dead"]
    /\ widx' = [widx EXCEPT ![w] = 1]
    /\ wpending' = [wpending EXCEPT ![w] = 0]
    /\ wdriver' = [wdriver EXCEPT ![w] = FALSE]

\* the process crashes or is killed from outside (non-zero exit code), or the
\* terminate() the supervisor sent reaches it
WorkerDies(w) ==
    /\ Alive(w)
    /\ \/ w \in termreq /\ UNCHANGED crashed
       \/ w \notin termreq /\ Cardinality(crashed) < MaxCrashes
                           /\ crashed' = crashed \cup {w}
    /\ KilledWorker(w)
    /\ UNCHANGED <<notworker, wlog, progress_queue, output_queue, pushed>>

WorkerStep(w) ==
    \/ WorkerInitOk(w)
    \/ WorkerInitFails(w)
    \/ WorkerSkip(w)
    \/ WorkerPush(w)
    \/ WorkerSignal(w)
    \/ WorkerNoResult(w)
    \/ WorkerInternalError(w)
    \/ WorkerQuit(w)
    \/ WorkerFinally(w)

\* -------------------------------------------------------- output writer
\* a writer that takes the newest message of the channel instead of the oldest
WriterGetNewest ==
    /\ owpc = "running"
    /\ output_queue # <<>>
    /\ output_queue' = SubSeq(output_queue, 1, Len(output_queue) - 1)
    /\ IF output_queue[Len(output_queue)].none
       THEN /\ owpc' = "exited"
            /\ UNCHANGED <<outfile, headers_written, items_written>>
       ELSE /\ outfile' = append_single_result(outfile, headers_written,
                                               output_queue[Len(output_queue)])
            /\ headers_written' = TRUE
            /\ items_written' = items_written + 1
            /\ UNCHANGED owpc
    /\ UNCHANGED <<inputvars, timervars, should_stop, interrupt,
                   batches, ppc, filtered, supvars, workervars,
                   progress_queue, pushed, loggervars, sinkvars>>

\* OutputWriterProcess.run, one iteration: the loop ends when the process's
\* own should_stop is set; else it takes a message: None ends the loop, a
\* record is appended to the output file
WriterGet ==
    /\ owpc = "running"
    /\ IF should_stop.writer
       THEN /\ owpc' = "exited"
            /\ UNCHANGED <<output_queue, outfile, headers_written,
                           items_written>>
       ELSE /\ output_queue # <<>>
            /\ output_queue' = Tail(output_queue)
            /\ IF Head(output_queue).none
               THEN /\ owpc' = "exited"
                    /\ UNCHANGED <<outfile, headers_written, items_written>>
               ELSE /\ outfile' = append_single_result(outfile,
                                        headers_written, Head(output_queue))
                    /\ headers_written' = TRUE
                    /\ items_written' = items_written + 1
                    /\ UNCHANGED owpc
    /\ UNCHANGED <<inputvars, timervars, should_stop, interrupt,
                   batches, ppc, filtered, supvars, workervars,
                   progress_queue, pushed, loggervars, sinkvars>>

\* LoggerProcess.run, one iteration: the loop ends when the process's own
\* should_stop is set; else it takes a message and None ends the loop
LoggerGet ==
    /\ lpc = "running"
    /\ IF should_stop.logger
       THEN /\ lpc' = "exited"
            /\ UNCHANGED log_queue
       ELSE /\ log_queue # <<>>
            /\ log_queue' = Tail(log_queue)
            /\ lpc' = IF Head(log_queue) = "None" THEN "exited" ELSE lpc
    /\ UNCHANGED <<inputvars, timervars, should_stop, interrupt,
                   batches, ppc, outfile, filtered, supvars,
                   workervars, progress_queue, output_queue, pushed,
                   writervars, sinkvars>>

\* ------------------------------------------------------------ supervisor
\* what no supervisor step changes
notsup == <<inputvars, timervars,
            ppc, wlog, crashed, pushed, items_written, sinkvars>>

\* run_multiprocess_scraper, lines 806-808: nothing to scrape
SupNoItems ==
    /\ sup_pc = "entry"
    /\ items_to_scrape = <<>>
    /\ sup_pc' = "returned"
    /\ UNCHANGED <<notsup, should_stop, interrupt, killreq, summary,
                   batches, outfile, filtered, nstarted,
                   completed_processes, joinidx, tracker, anomalies, termreq,
                   wpc, widx, wpending, wdriver, progress_queue, output_queue,
                   owpc, headers_written, loggervars>>

\* the state of a satellite process (logger, writer) once lines 806-852 have
\* run: they are started only when items are left after resume filtering
SatelliteEager(left) == "running"
SatelliteNotStarted(left) == "notstarted"
SatelliteAfterSetup(left) == IF left # <<>> THEN "running" ELSE "notstarted"

\* the output file after lines 826-834: OutputManager touches it
FileAfterSetup(file, left) ==
    IF left # <<>> THEN [file EXCEPT !.exists = TRUE] ELSE file

\* lines 810-866: resume filter; return when nothing is left; else create the
\* OutputManager, start the logger and the writer, create the tracker and
\* split the items into batches
SupSetup ==
    /\ sup_pc = "entry"
    /\ items_to_scrape # <<>>
    /\ filtered' = filter_items_for_resume(items_to_scrape, outfile)
    /\ outfile' = FileAfterSetup(outfile, filtered')
    /\ lpc' = SatelliteAfterSetup(filtered')
    /\ owpc' = SatelliteAfterSetup(filtered')
    /\ headers_written' = FALSE
    /\ tracker' = NewTracker
    /\ batches' = split_items_into_batches(filtered', num_processes)
    /\ sup_pc' = IF filtered' = <<>> THEN "returned" ELSE "spawn"
    /\ UNCHANGED <<notsup, should_stop, interrupt, killreq, summary,
                   nstarted, completed_processes, joinidx,
                   anomalies, termreq, wpc, widx, wpending, wdriver, progress_queue,
                   output_queue, log_queue>>

\* lines 871-891, one iteration: the worker of the next batch is started;
\* after the last one the monitoring loop is entered
SupSpawn ==
    /\ sup_pc = "spawn"
    /\ nstarted < Len(batches)
    /\ nstarted' = nstarted + 1
    /\ wpc' = [wpc EXCEPT ![nstarted + 1] = "starting"]
    /\ completed_processes' = 0
    /\ sup_pc' = IF nstarted' = Len(batches) THEN "monitor" ELSE "spawn"
    /\ UNCHANGED <<notsup, should_stop, interrupt, killreq, summary,
                   batches, outfile, filtered, joinidx, tracker,
                   anomalies, termreq, widx, wpending, wdriver, progress_queue,
                   output_queue, owpc, headers_written, loggervars>>

\* lines 906-909: workers found dead with a non-zero exit code are logged
DiedNonZero == {w \in 1..nstarted : wpc[w] = "dead"}

\* line 891: while completed_processes < len(processes)
AfterMonitor(completed) == IF completed < nstarted THEN "monitor" ELSE "join"

\* lines 891-909, one iteration in which progress_queue.get returned a message
SupMonitorGet ==
    /\ sup_pc = "monitor"
    /\ progress_queue # <<>>
    /\ progress_queue' = Tail(progress_queue)
    /\ IF Head(progress_queue).done
       THEN /\ completed_processes' = completed_processes + 1
            /\ UNCHANGED tracker
       ELSE /\ tracker' = tracker_update(tracker, Head(progress_queue).n)
            /\ UNCHANGED completed_processes
    /\ anomalies' = anomalies \cup DiedNonZero
    /\ sup_pc' = AfterMonitor(completed_processes')
    /\ UNCHANGED <<notsup, should_stop, interrupt, killreq, summary,
                   batches, outfile, filtered, nstarted, joinidx,
                   termreq, wpc, widx, wpending, wdriver, output_queue, owpc,
                   headers_written, loggervars>>

\* lines 891-909, one iteration in which progress_queue.get timed out
SupMonitorEmpty ==
    /\ sup_pc = "monitor"
    /\ progress_queue = <<>>
    /\ anomalies' = anomalies \cup DiedNonZero
    /\ UNCHANGED <<notsup, should_stop, interrupt, killreq, summary,
                   batches, outfile, filtered, sup_pc, nstarted,
                   completed_processes, joinidx, tracker, termreq, wpc, widx,
                   wpending, wdriver, progress_queue, output_queue, owpc,
                   headers_written, loggervars>>

\* lines 911-913: KeyboardInterrupt while monitoring
SupInterrupt ==
    /\ sup_pc = "monitor"
    /\ sup_pc' = "join"
    /\ interrupt' = "caught"
    /\ UNCHANGED <<notsup, should_stop, killreq, summary,
                   batches, outfile, filtered, nstarted,
                   completed_processes, joinidx, tracker, anomalies, termreq,
                   wpc, widx, wpending, wdriver, progress_queue, output_queue,
                   owpc, headers_written, loggervars>>

\* lines 869-887, 929-931: an exception leaves the try block while the workers
\* are being started (the scraper constructor or process.start() raises); it
\* is caught at line 929 and the finally block runs next, the workers already
\* started being neither joined nor terminated
SupException ==
    /\ sup_pc = "spawn"
    /\ sup_pc' = "finally"
    /\ UNCHANGED <<notsup, should_stop, interrupt, killreq, summary,
                   batches, outfile, filtered, nstarted,
                   completed_processes, joinidx, tracker, anomalies, termreq,
                   wpc, widx, wpending, wdriver, progress_queue, output_queue,
                   owpc, headers_written, loggervars>>

\* a KeyboardInterrupt raised in the supervisor outside the try of lines
\* 892-913, while the workers are started (lines 869-887) or joined (lines
\* 915-924): `except Exception` (line 929) does not catch it, the finally
\* block runs and the interrupt goes on propagating
SupInterruptOutside ==
    /\ sup_pc \in {"spawn", "join", "grace"}
    /\ nstarted > 0
    /\ interrupt = "none"
    /\ interrupt' = "propagating"
    /\ sup_pc' = "finally"
    /\ UNCHANGED <<notsup, should_stop, killreq, summary,
                   batches, outfile, filtered, nstarted,
                   completed_processes, joinidx, tracker, anomalies, termreq,
                   wpc, widx, wpending, wdriver, progress_queue, output_queue,
                   owpc, headers_written, loggervars>>

\* lines 926-927 follow the join of the last worker
AfterJoin(idx) == IF idx > nstarted THEN "finally" ELSE "join"

\* line 927: progress_tracker._log_progress(), the final progress log
FinalLog(idx) ==
    IF idx > nstarted THEN log_progress(tracker, Len(filtered)) ELSE summary

\* lines 916-918: process.join(timeout=30) finds the worker ended
SupJoined ==
    /\ sup_pc = "join"
    /\ joinidx <= nstarted
    /\ ~Alive(joinidx)
    /\ joinidx' = joinidx + 1
    /\ sup_pc' = AfterJoin(joinidx')
    /\ summary' = FinalLog(joinidx')
    /\ UNCHANGED <<notsup, should_stop, interrupt,
                   killreq, batches, outfile, filtered, nstarted,
                   completed_processes, tracker, anomalies, termreq, wpc, widx,
                   wpending, wdriver, progress_queue, output_queue, owpc,
                   headers_written, loggervars>>

\* the same step without the terminate() of line 920
SupSkipTerminate ==
    /\ sup_pc = "join"
    /\ joinidx <= nstarted
    /\ Alive(joinidx)
    /\ sup_pc' = "grace"
    /\ UNCHANGED <<notsup, should_stop, interrupt, killreq, summary,
                   batches, outfile, filtered, nstarted,
                   completed_processes, joinidx, tracker, anomalies, termreq,
                   wpc, widx, wpending, wdriver, progress_queue, output_queue,
                   owpc, headers_written, loggervars>>

\* lines 917-920: the join timed out, the worker is alive: terminate()
SupTerminate ==
    /\ sup_pc = "join"
    /\ joinidx <= nstarted
    /\ Alive(joinidx)
    /\ termreq' = termreq \cup {joinidx}
    /\ sup_pc' = "grace"
    /\ UNCHANGED <<notsup, should_stop, interrupt, killreq, summary,
                   batches, outfile, filtered, nstarted,
                   completed_processes, joinidx, tracker, anomalies, wpc, widx,
                   wpending, wdriver, progress_queue, output_queue, owpc,
                   headers_written, loggervars>>

\* lines 921-924: join(timeout=5), then kill() if the worker is still alive
SupGrace ==
    /\ sup_pc = "grace"
    /\ IF Alive(joinidx)
       THEN KilledWorker(joinidx) /\ killreq' = killreq \cup {joinidx}
       ELSE UNCHANGED <<wpc, widx, wpending, wdriver, killreq>>
    /\ joinidx' = joinidx + 1
    /\ sup_pc' = AfterJoin(joinidx')
    /\ summary' = FinalLog(joinidx')
    /\ UNCHANGED <<notsup, should_stop, interrupt, batches, outfile,
                   filtered, nstarted,
                   completed_processes, tracker, anomalies, termreq,
                   progress_queue, output_queue, owpc, headers_written,
                   loggervars>>

\* lines 933-934: output_writer.stop() sets the flag of the supervisor's own
\* copy of the object; the sentinel is put on the result channel
SupStopWriter ==
    /\ sup_pc = "finally"
    /\ should_stop' = [should_stop EXCEPT !.sup_writer = TRUE]
    /\ output_queue' = Append(output_queue, NoneMsg)
    /\ sup_pc' = "join_writer"
    /\ UNCHANGED <<notsup, interrupt, killreq, summary,
                   batches, outfile, filtered, nstarted,
                   completed_processes, joinidx, tracker, anomalies, termreq,
                   wpc, widx, wpending, wdriver, progress_queue, owpc,
                   headers_written, loggervars>>

\* join(timeout=5) of a satellite process, then terminate() if it is alive
AfterJoinOrTerminate(state) == IF state = "running" THEN "terminated" ELSE state

\* lines 935-941: the writer is joined or terminated; the logger is told to
\* stop and its sentinel is put on the log channel
SupJoinWriter ==
    /\ sup_pc = "join_writer"
    /\ owpc' = AfterJoinOrTerminate(owpc)
    /\ should_stop' = [should_stop EXCEPT !.sup_logger = TRUE]
    /\ log_queue' = Append(log_queue, "None")
    /\ sup_pc' = "join_logger"
    /\ UNCHANGED <<notsup, interrupt, killreq, summary,
                   batches, outfile, filtered, nstarted,
                   completed_processes, joinidx, tracker, anomalies, termreq,
                   wpc, widx, wpending, wdriver, progress_queue, output_queue,
                   headers_written, lpc>>

\* the end of the finally block: an exception that was propagating when the
\* block was entered is re-raised, else the function returns
AfterFinally(int) == IF int = "propagating" THEN "raised" ELSE "returned"

\* lines 942-946: the logger is joined or terminated, then
\* main_logger.info("Scraping completed") puts its event on the log channel
SupJoinLogger ==
    /\ sup_pc = "join_logger"
    /\ lpc' = AfterJoinOrTerminate(lpc)
    /\ log_queue' = Append(log_queue, "Scraping completed")
    /\ sup_pc' = AfterFinally(interrupt)
    /\ UNCHANGED <<notsup, should_stop, interrupt, killreq, summary,
                   batches, outfile, filtered, nstarted,
                   completed_processes, joinidx, tracker, anomalies, termreq,
                   wpc, widx, wpending, wdriver, progress_queue, output_queue,
                   owpc, headers_written>>

\* run_multiprocess_scraper returns None at lines 808, 830 and after line 946;
\* nothing in it sets an exit status or raises on failure, so the script that
\* called it ends with status 0 wherever the function returned
ExitStatus == 0

SupStep ==
    \/ SupNoItems
    \/ SupSetup
    \/ SupSpawn
    \/ SupMonitorGet
    \/ SupMonitorEmpty
    \/ SupJoined
    \/ SupTerminate
    \/ SupGrace
    \/ SupStopWriter
    \/ SupJoinWriter
    \/ SupJoinLogger

\* ------------------------------------------------- specification: the run
RunFiles ==
    {NoFile,
     [exists |-> TRUE, rows |-> <<HeaderRow, PriorRow("a")>>]}

Init ==
    /\ items_to_scrape \in SeqsUpTo(RunKeys, MaxRunItems)
    /\ num_processes \in ProcCounts
    /\ outfile \in RunFiles
    /\ ppc = "run"
    /\ RunIdle
    /\ SinkIdle

Next ==
    \/ SupStep
    \/ SupInterrupt
    \/ SupException
    \/ \E w \in Procs : WorkerStep(w)
    \/ \E w \in Procs : WorkerDies(w)
    \/ WriterGet
    \/ LoggerGet

Spec == Init /\ [][Next]_vars

\* --------------------------------- specification: the interrupted run
\* the run with a KeyboardInterrupt possible outside the monitoring loop too
InitInterrupt ==
    /\ items_to_scrape \in SeqsUpTo({"a", ""}, MaxRunItems)
    /\ num_processes \in ProcCounts
    /\ outfile = NoFile
    /\ ppc = "run"
    /\ RunIdle
    /\ SinkIdle

NextInterrupt ==
    \/ Next
    \/ SupInterruptOutside

SpecInterrupt == InitInterrupt /\ [][NextInterrupt]_vars

\* ------------------------------------------ specification: process_batch
\* process_batch run on its own: one worker, started on a batch drawn from the
\* non-empty lists of up to MaxItems items, nothing consuming its channels
InitWorker ==
    /\ items_to_scrape \in SeqsUpTo(RunKeys, MaxItems) \ {<<>>}
    /\ num_processes = 1
    /\ outfile = NoFile
    /\ ppc = "worker"
    /\ filtered = items_to_scrape
    /\ batches = <<items_to_scrape>>
    /\ sup_pc = "monitor"
    /\ nstarted = 1
    /\ completed_processes = 0
    /\ joinidx = 1
    /\ tracker = NewTracker
    /\ last_update = 0
    /\ emitted = <<>>
    /\ should_stop = NoStop
    /\ interrupt = "none"
    /\ anomalies = {}
    /\ termreq = {}
    /\ killreq = {}
    /\ summary = NoSummary
    /\ crashed = {}
    /\ wpc = [w \in Procs |-> IF w = 1 THEN "starting" ELSE "notstarted"]
    /\ widx = [w \in Procs |-> 1]
    /\ wpending = [w \in Procs |-> 0]
    /\ wdriver = [w \in Procs |-> FALSE]
    /\ wlog = [w \in Procs |-> <<>>]
    /\ progress_queue = <<>>
    /\ output_queue = <<>>
    /\ pushed = {}
    /\ owpc = "running"
    /\ headers_written = FALSE
    /\ items_written = 0
    /\ lpc = "running"
    /\ log_queue = <<>>
    /\ SinkIdle

NextWorker ==
    \/ \E w \in Procs : WorkerStep(w)
    \/ \E w \in Procs : WorkerDies(w)

SpecWorker == InitWorker /\ [][NextWorker]_vars

\* ------------------------------------------- specification: output sink
\* MaxAppenders processes, each with its own OutputManager on the same file,
\* each appending MaxAppends records through append_single_result
SinkRecord(p, k) == RecordMsg("a", p, k, 1)

\* line 634: file_is_empty = self.output_file.stat().st_size == 0
SinkStat(p) ==
    /\ apc[p] = "idle"
    /\ adone[p] < MaxAppends
    /\ aempty' = [aempty EXCEPT ![p] = (outfile.rows = <<>>)]
    /\ apc' = [apc EXCEPT ![p] = "stat"]
    /\ UNCHANGED <<inputvars, timervars, should_stop, interrupt, fallbackvars,
                   batches, ppc, runvars, ahw, abuf, adone,
                   flock_owner>>

\* lines 640-641: open(..., 'a') and flock(LOCK_EX), which waits for the lock
SinkLock(p) ==
    /\ apc[p] = "stat"
    /\ flock_owner = 0
    /\ flock_owner' = p
    /\ apc' = [apc EXCEPT ![p] = "locked"]
    /\ UNCHANGED <<inputvars, timervars, should_stop, interrupt, fallbackvars,
                   batches, ppc, runvars, aempty, ahw, abuf, adone>>

\* lines 643-645: to_csv writes the lines to the handle, which passes them to
\* the file at once or keeps them buffered until it is closed
SinkWrite(p) ==
    /\ apc[p] = "locked"
    /\ LET lines == CsvRows(write_header(aempty[p], ahw[p]),
                            SinkRecord(p, adone[p] + 1))
       IN  \/ /\ outfile' = [outfile EXCEPT !.rows = @ \o lines]
              /\ UNCHANGED abuf
           \/ /\ abuf' = [abuf EXCEPT ![p] = lines]
              /\ UNCHANGED outfile
    /\ ahw' = [ahw EXCEPT ![p] = TRUE]
    /\ apc' = [apc EXCEPT ![p] = "written"]
    /\ UNCHANGED <<inputvars, timervars, should_stop, interrupt, fallbackvars,
                   batches, ppc, filtered, supvars, workervars,
                   progress_queue, output_queue, pushed, writervars,
                   loggervars, aempty, adone, flock_owner>>

\* line 625: flock(LOCK_UN) when the inner with-block is left
SinkUnlock(p) ==
    /\ apc[p] = "written"
    /\ flock_owner' = 0
    /\ apc' = [apc EXCEPT ![p] = "unlocked"]
    /\ UNCHANGED <<inputvars, timervars, should_stop, interrupt, fallbackvars,
                   batches, ppc, runvars, aempty, ahw, abuf, adone>>

\* line 640, leaving the with-block: the handle is closed, buffered lines are
\* appended to the file (O_APPEND)
SinkClose(p) ==
    /\ apc[p] = "unlocked"
    /\ outfile' = [outfile EXCEPT !.rows = @ \o abuf[p]]
    /\ abuf' = [abuf EXCEPT ![p] = <<>>]
    /\ adone' = [adone EXCEPT ![p] = @ + 1]
    /\ apc' = [apc EXCEPT ![p] = "idle"]
    /\ UNCHANGED <<inputvars, timervars, should_stop, interrupt, fallbackvars,
                   batches, ppc, filtered, supvars, workervars,
                   progress_queue, output_queue, pushed, writervars,
                   loggervars, aempty, ahw, flock_owner>>

\* OutputManager.__init__ of every appender has run: the file exists, empty
InitSink ==
    /\ items_to_scrape = <<>>
    /\ num_processes = 1
    /\ ppc = "sink"
    /\ outfile = [exists |-> TRUE, rows |-> <<>>]
    /\ RunIdle
    /\ SinkIdle

NextSink ==
    \E p \in Appenders :
        \/ SinkStat(p)
        \/ SinkLock(p)
        \/ SinkWrite(p)
        \/ SinkUnlock(p)
        \/ SinkClose(p)

SpecSink == InitSink /\ [][NextSink]_vars

\* ------------------------------------- specification: progress summaries
\* one ProgressTracker over total_input_items items taking updates while the
\* clock advances; time.time() counts the seconds since 1970, so the clock
\* starts above LogInterval
total_input_items == Len(items_to_scrape)

\* lines 730-736: current_time = time.time(); when the condition holds,
\* _log_progress() and last_update = current_time
LogOnUpdate(t) ==
    IF update_logs(clock, last_update, t, total_input_items)
    THEN /\ emitted' = Append(emitted,
                [at |-> clock, s |-> log_progress(t, total_input_items)])
         /\ last_update' = clock
    ELSE UNCHANGED <<last_update, emitted>>

\* time passes
TrackerTick ==
    /\ ppc = "tracker"
    /\ clock < MaxTime
    /\ clock' = clock + 1
    /\ UNCHANGED <<inputvars, timervars, should_stop, interrupt,
                   batches, ppc, runvars, apc, aempty,
                   ahw, abuf, adone, flock_owner, sidefiles, failed>>

\* ProgressTracker.update(count), lines 718-736; a run can signal more often
\* than it has items, so one update past the total is taken as well
TrackerUpdate(count) ==
    /\ ppc = "tracker"
    /\ tracker.processed <= total_input_items
    /\ tracker' = tracker_update(tracker, count)
    /\ LogOnUpdate(tracker')
    /\ UNCHANGED <<inputvars, should_stop, interrupt, batches, ppc, outfile,
                   filtered,
                   sup_pc, nstarted,
                   completed_processes, joinidx, anomalies, termreq, killreq,
                   summary, workervars, progress_queue, output_queue, pushed,
                   writervars, loggervars, sinkvars>>

InitTracker ==
    /\ items_to_scrape \in {q \in SeqsUpTo({"a"}, MaxTotal) : q # <<>>}
    /\ num_processes = 1
    /\ ppc = "tracker"
    /\ outfile = NoFile
    /\ RunIdle
    /\ apc = [p \in Appenders |-> "idle"]
    /\ aempty = [p \in Appenders |-> FALSE]
    /\ ahw = [p \in Appenders |-> FALSE]
    /\ abuf = [p \in Appenders |-> <<>>]
    /\ adone = [p \in Appenders |-> 0]
    /\ flock_owner = 0
    /\ clock \in (LogInterval + 1)..(LogInterval + 2)
    /\ sidefiles = [t \in 0..MaxClock |-> <<>>]
    /\ failed = {}

NextTracker ==
    \/ TrackerTick
    \/ \E count \in {-1, 0, 1} : TrackerUpdate(count)

SpecTracker == InitTracker /\ [][NextTracker]_vars

\* ------------------------------------- specification: fallback side file
\* one OutputManager appending MaxWrites records while the clock advances;
\* an append may fail, and the fallback of lines 647-657 then runs
\* line 651: output_file.with_suffix(f'.backup_{int(time.time())}.csv'): the
\* side file is named by the current second
backup_file(now) == now

\* line 653: pd.DataFrame([result]).to_csv(backup_file, ...) opens the file
\* with mode 'w': whatever it held is replaced by a header and the record
BackupRows(r) == CsvRows(TRUE, r)

\* time passes
Tick ==
    /\ ppc = "fallback"
    /\ clock < MaxClock
    /\ clock' = clock + 1
    /\ UNCHANGED <<inputvars, timervars, should_stop, interrupt,
                   batches, ppc, runvars, apc, aempty, ahw, abuf,
                   adone, flock_owner, sidefiles, failed>>

\* lines 631-645 without an exception
AppendOk ==
    /\ ppc = "fallback"
    /\ adone[1] < MaxWrites
    /\ outfile' = append_single_result(outfile, ahw[1], SinkRecord(1, adone[1] + 1))
    /\ ahw' = [ahw EXCEPT ![1] = TRUE]
    /\ adone' = [adone EXCEPT ![1] = @ + 1]
    /\ UNCHANGED <<inputvars, timervars, should_stop, interrupt,
                   batches, ppc, filtered, supvars, workervars,
                   progress_queue, output_queue, pushed, writervars,
                   loggervars, apc, aempty, abuf, flock_owner, fallbackvars>>

\* lines 647-654: stat, open or to_csv raised before anything was written;
\* the record is written to the backup file
AppendFails ==
    /\ ppc = "fallback"
    /\ adone[1] < MaxWrites
    /\ failed' = failed \cup {SinkRecord(1, adone[1] + 1)}
    /\ sidefiles' = [sidefiles EXCEPT ![backup_file(clock)] =
                        BackupRows(SinkRecord(1, adone[1] + 1))]
    /\ adone' = [adone EXCEPT ![1] = @ + 1]
    /\ UNCHANGED <<inputvars, timervars, should_stop, interrupt,
                   batches, ppc, runvars, apc, aempty, ahw, abuf,
                   flock_owner, clock>>

\* lines 655-657: writing the backup file raised too; the error is logged
AppendAndBackupFail ==
    /\ ppc = "fallback"
    /\ adone[1] < MaxWrites
    /\ failed' = failed \cup {SinkRecord(1, adone[1] + 1)}
    /\ adone' = [adone EXCEPT ![1] = @ + 1]
    /\ UNCHANGED <<inputvars, timervars, should_stop, interrupt,
                   batches, ppc, runvars, apc, aempty, ahw, abuf,
                   flock_owner, clock, sidefiles>>

InitFallback ==
    /\ items_to_scrape = <<>>
    /\ num_processes = 1
    /\ ppc = "fallback"
    /\ outfile \in {FileOf(<<>>), FileOf(<<HeaderRow, PriorRow("a")>>)}
    /\ RunIdle
    /\ SinkIdle

NextFallback ==
    \/ Tick
    \/ AppendOk
    \/ AppendFails
    \/ AppendAndBackupFail

SpecFallback == InitFallback /\ [][NextFallback]_vars

\* ------------------------------------------ specification: resume filter
\* _filter_items_for_resume applied to an item list and an output file left by
\* earlier runs (or by something else)
ResumeItemKeys == {"a", "b", "", "07"}

OtherHeaderRow == [hdr |-> TRUE, key |-> "other", w |-> 0, i |-> 0, j |-> 0]

\* files the filter cannot use: missing, empty, header only, without the
\* resume-key column, not parsable, or with an all-empty key column
FailOpenFiles ==
    {NoFile,
     FileOf(<<>>),
     FileOf(<<HeaderRow>>),
     FileOf(<<OtherHeaderRow, PriorRow("a")>>),
     FileOf(<<HeaderRow, PriorRow("a"), MalformedRow>>),
     FileOf(<<HeaderRow, PriorRow("")>>)}

ResumeFiles ==
    FailOpenFiles \cup
    {FileOf(<<HeaderRow, PriorRow("a")>>),
     FileOf(<<HeaderRow, PriorRow("a"), PriorRow("b")>>),
     FileOf(<<HeaderRow, PriorRow("07")>>),
     FileOf(<<HeaderRow, PriorRow("07"), PriorRow("")>>),
     FileOf(<<HeaderRow, PriorRow("a"), HeaderRow, PriorRow("b")>>)}

InitResume ==
    /\ items_to_scrape \in SeqsUpTo(ResumeItemKeys, MaxItems)
    /\ num_processes = 1
    /\ outfile \in ResumeFiles
    /\ ppc = "resume"
    /\ RunIdle
    /\ SinkIdle

\* line 826: items_to_scrape = temp_scraper._filter_items_for_resume(...)
Resume ==
    /\ ppc = "resume"
    /\ filtered' = filter_items_for_resume(items_to_scrape, outfile)
    /\ ppc' = "resumed"
    /\ UNCHANGED <<inputvars, timervars, should_stop, interrupt,
                   batches, outfile, supvars, workervars,
                   progress_queue, output_queue, pushed, writervars,
                   loggervars, sinkvars>>

NextResume == Resume

SpecResume == InitResume /\ [][NextResume]_vars

\* ================================================================ claims
\* the state reached by lines 806-866: nothing was started or written yet
AfterSetup ==
    /\ ppc = "run"
    /\ sup_pc \in {"spawn", "returned"}
    /\ nstarted = 0
    /\ items_to_scrape # <<>>

\* the distinct non-empty values held by the resume-key column of a file
ColumnKeys(file) ==
    {file.rows[k].key : k \in {n \in 2..Len(file.rows) : ~file.rows[n].hdr}} \ {""}

\* C2 (as stated): when the run is resumed with output whose resume-key column
\* holds the key set K, the items handed to the workers are exactly the input
\* items whose key is not in K, an item with a missing or empty key included.
C2_AsStated ==
    (AfterSetup /\ ColumnKeys(outfile) # {}) =>
        /\ filtered = SelectNotIn(items_to_scrape, ColumnKeys(outfile))
        /\ Flatten(batches) = filtered

\* the signals a worker logged for the item at position i of its batch
ItemCauses == {"skip", "results", "empty", "raised_inside", "raised_out"}

SignalsFor(w, i) ==
    {k \in 1..Len(wlog[w]) : wlog[w][k].i = i /\ wlog[w][k].cause \in ItemCauses}

\* C3 (as stated): for an item whose processing raised inside the
\* _process_single_item call the worker emits exactly one Failed signal (-1)
\* and no Produced signal, pushes no record for it, and goes on with the batch.
C3_AsStated ==
    \A w \in Procs : \A k \in 1..Len(wlog[w]) :
        wlog[w][k].cause \in {"raised_inside", "raised_out"} =>
            /\ wlog[w][k].n = -1
            /\ SignalsFor(w, wlog[w][k].i) = {k}
            /\ \A r \in pushed : ~(r.w = w /\ r.i = wlog[w][k].i)

DoneCount(w) == Cardinality({k \in 1..Len(wlog[w]) : wlog[w][k].done})

\* C4: a worker never puts more than one 'DONE' on the progress channel, and
\* once process_batch has been left (whatever the items' outcomes, also after
\* a failed driver initialisation or an exception that unwound the loop) it
\* has put exactly one.
C4_ExactlyOneDone ==
    \A w \in Procs :
        /\ DoneCount(w) <= 1
        /\ wpc[w] = "exited" => DoneCount(w) = 1

\* a worker that left process_batch after an exception unwound its loop
C4_Witness ==
    \E w \in Procs :
        /\ wpc[w] = "exited"
        /\ \E k \in 1..Len(wlog[w]) : wlog[w][k].cause = "unwind"
        /\ \E k \in 1..Len(wlog[w]) : wlog[w][k].cause = "results"
        /\ DoneCount(w) = 1

\* the monitoring loop ended because every worker's 'DONE' was received
AllCompleted ==
    /\ ppc = "run"
    /\ nstarted > 0
    /\ sup_pc \notin {"entry", "spawn", "monitor"}
    /\ completed_processes = nstarted

\* C5 (as stated): once the supervisor has received every worker's Completed
\* signal, processedInputItems equals the number of filtered input items.
C5_AsStated == AllCompleted => tracker.processed = Len(filtered)

Persisted(r) ==
    \E k \in 1..Len(outfile.rows) :
        outfile.rows[k] = DataRow(r.key, r.w, r.i, r.j)

\* C6 (as stated): every record a worker pushed to the result channel has been
\* persisted when the run ends; the writer is not stopped or terminated while
\* pushed records are still unwritten.
C6_AsStated ==
    (ppc = "run" /\ sup_pc = "returned") => \A r \in pushed : Persisted(r)

HeaderCount(file) == Cardinality({k \in 1..Len(file.rows) : file.rows[k].hdr})

RowCount(file, r) ==
    Cardinality({k \in 1..Len(file.rows) :
                    file.rows[k] = DataRow(r.key, r.w, r.i, r.j)})

SinkFinished == ppc = "sink" /\ \A p \in Appenders : adone[p] = MaxAppends

\* C7 (as stated): when the appenders, each with its own OutputManager on the
\* same initially empty file, have appended their records, the file holds
\* every record exactly once and exactly one header row.
C7_AsStated ==
    SinkFinished =>
        /\ \A p \in Appenders : \A k \in 1..MaxAppends :
              RowCount(outfile, SinkRecord(p, k)) = 1
        /\ Len(outfile.rows) - HeaderCount(outfile) = MaxAppenders * MaxAppends
        /\ HeaderCount(outfile) = 1

\* the supervisor is monitoring, a worker died without sending 'DONE', and
\* nothing more can arrive: every worker has ended and the channel is empty
WaitingForDeadWorker ==
    /\ ppc = "run"
    /\ sup_pc = "monitor"
    /\ progress_queue = <<>>
    /\ \A w \in 1..nstarted : ~Alive(w)
    /\ \E w \in 1..nstarted : wpc[w] = "dead" /\ DoneCount(w) = 0

SupLeavesMonitor == SupStep /\ sup_pc' # "monitor"

\* C8 (as stated): a worker that died without sending Completed does not block
\* the supervisor: it logs the anomaly and can still leave the monitoring loop
\* by a step of its own (no interrupt) and go on to shut down.
C8_AsStated == WaitingForDeadWorker => ENABLED SupLeavesMonitor

\* C10: when the item list is empty, as given or after resume filtering, the
\* run has returned without starting a worker, the writer or the logger, and
\* without creating or changing the output file.
C10_NothingToDo ==
    (ppc = "run" /\ sup_pc # "entry" /\ filtered = <<>>) =>
        /\ sup_pc = "returned"
        /\ nstarted = 0
        /\ \A w \in Procs : wpc[w] = "notstarted"
        /\ owpc = "notstarted"
        /\ lpc = "notstarted"
        /\ outfile \in RunFiles
        /\ output_queue = <<>> /\ progress_queue = <<>> /\ log_queue = <<>>

\* a non-empty input that resume filtering emptied
C10_Witness ==
    /\ ppc = "run"
    /\ sup_pc = "returned"
    /\ items_to_scrape # <<>>
    /\ filtered = <<>>
    /\ outfile # NoFile

\* C11: when the output file is missing, empty, header-only, without the
\* resume-key column or not parsable, _filter_items_for_resume returns the item
\* list unchanged (same items, same order) and leaves the file as it was.
C11_FailsOpen ==
    (ppc = "resumed" /\ outfile \in FailOpenFiles) =>
        /\ filtered = items_to_scrape
        /\ load_existing_results(outfile) = {}

\* the filter ran on an unparsable file with an empty-key item in the list
C11_Witness ==
    /\ ppc = "resumed"
    /\ Unparsable(outfile)
    /\ "" \in Range(items_to_scrape)
    /\ Len(items_to_scrape) = MaxItems
    /\ filtered = items_to_scrape

\* what a worker put on the progress channel, as channel messages
SentBy(w) ==
    [k \in 1..Len(wlog[w]) |->
        IF wlog[w][k].done THEN DoneMsg ELSE CountMsg(wlog[w][k].n)]

InitFailed(w) == \E k \in 1..Len(wlog[w]) : wlog[w][k].cause = "initfail"

\* C12: a worker whose _init_driver returned False processes no item and pushes
\* no record, puts exactly len(batch) signals, each -1, on the progress
\* channel, and then puts 'DONE' and ends.
C12_InitFailure ==
    \A w \in Procs : InitFailed(w) =>
        /\ widx[w] = 1
        /\ \A r \in pushed : r.w # w
        /\ wpc[w] \in {"finally", "completing", "exited", "dead"}
        /\ Len(wlog[w]) >= Len(BatchOf(w))
        /\ \A k \in 1..Len(BatchOf(w)) : ~wlog[w][k].done /\ wlog[w][k].n = -1
        /\ \A k \in (Len(BatchOf(w)) + 1)..Len(wlog[w]) :
              k = Len(BatchOf(w)) + 1 /\ wlog[w][k].done
        /\ wpc[w] = "exited" => Len(wlog[w]) = Len(BatchOf(w)) + 1
        /\ ppc = "worker" => progress_queue = SentBy(w)

\* a worker with a batch of MaxItems items ended after a failed initialisation
C12_Witness ==
    \E w \in Procs :
        /\ ppc = "worker"
        /\ InitFailed(w)
        /\ Len(BatchOf(w)) = MaxItems
        /\ wpc[w] = "exited"
        /\ Len(progress_queue) = MaxItems + 1

\* the Produced/Failed signals (integers) a worker has put so far
CountSignals(w) == Cardinality({k \in 1..Len(wlog[w]) : ~wlog[w][k].done})

\* C13 (as stated): at every point a worker has put at most one Produced or
\* Failed signal per item of its batch, also when an internal error unwinds
\* process_batch after some items were already signalled.
C13_AsStated ==
    \A w \in 1..Len(batches) : CountSignals(w) <= Len(BatchOf(w))

\* the records worker w has pushed for the item at position i of its batch
PushedFor(w, i) == {r \in pushed : r.w = w /\ r.i = i}

\* C14: whenever a worker has put the Produced(count) signal of an item, all
\* records of that item are already on the result channel's history, and count
\* is their number (at least one).
C14_PushBeforeSignal ==
    \A w \in Procs : \A k \in 1..Len(wlog[w]) :
        wlog[w][k].cause = "results" =>
            /\ wlog[w][k].n >= 1
            /\ Cardinality(PushedFor(w, wlog[w][k].i)) = wlog[w][k].n
            /\ {r.j : r \in PushedFor(w, wlog[w][k].i)} = 1..wlog[w][k].n

\* a worker signalled an item that produced MaxRecords records, another item
\* of the batch having produced fewer
C14_Witness ==
    \E w \in Procs : \E k, m \in 1..Len(wlog[w]) :
        /\ wlog[w][k].cause = "results" /\ wlog[w][k].n = MaxRecords
        /\ wlog[w][m].cause = "results" /\ wlog[w][m].n < MaxRecords
        /\ Cardinality(PushedFor(w, wlog[w][k].i)) = MaxRecords

\* C15 (as stated): in every reachable state of a run the number of records
\* the OutputWriter has written is at least the tracker's total_output_items.
C15_AsStated == ppc = "run" => items_written >= tracker.total_output

\* C16: the supervisor sends kill() only to a worker it has sent terminate()
\* before, terminate() only in the join loop to the worker whose join timed
\* out, and kill() only to a worker found alive after the grace-period join.
C16_Escalation ==
    ppc = "run" =>
        /\ killreq \subseteq termreq
        /\ termreq # {} => sup_pc \notin {"entry", "spawn", "monitor"}
        /\ \A w \in termreq : w <= joinidx
        /\ \A w \in killreq : w < joinidx /\ wpc[w] = "dead"
        /\ sup_pc = "grace" => joinidx \in termreq

\* a worker that ignored terminate() was killed; another ended by itself
C16_Witness ==
    /\ ppc = "run"
    /\ \E w \in killreq : w \in termreq /\ wpc[w] = "dead"
    /\ \E w \in 1..nstarted : w \notin termreq /\ wpc[w] = "exited"

\* the stop sentinel of the OutputWriter has been put on the result channel
WriterSentinelSent ==
    /\ ppc = "run"
    /\ sup_pc \in {"join_writer", "join_logger", "returned"}
    /\ nstarted > 0

\* C17 (as stated): on every path out of the run the stop sentinels are sent
\* only after every worker was waited for and, if alive, terminated: no worker
\* is alive once the OutputWriter's sentinel has been sent.
C17_AsStated == WriterSentinelSent => \A w \in Procs : ~Alive(w)

\* C18 (as stated): whenever the output file of a run holds rows, its header
\* row is there exactly once and is the first row, also when the run resumed
\* on a file that already held a header and rows.
C18_AsStated ==
    (ppc = "run" /\ outfile.rows # <<>>) =>
        /\ outfile.rows[1].hdr
        /\ HeaderCount(outfile) = 1

\* the records held by the side files
InSideFiles ==
    {r \in failed : \E t \in 0..MaxClock : \E n \in 1..Len(sidefiles[t]) :
        sidefiles[t][n] = DataRow(r.key, r.w, r.i, r.j)}

\* C19 (as stated): after any sequence of failed appends, every record whose
\* append failed is present in a side file (none was overwritten by another).
C19_AsStated == ppc = "fallback" => failed \subseteq InSideFiles

\* C20 (as stated): every run that started workers has emitted, when it
\* returns, a final progress summary with processed/total, output and failed
\* counts, whatever happened during the run.
C20_AsStated ==
    (ppc = "run" /\ sup_pc = "returned" /\ nstarted > 0) =>
        /\ summary.logged
        /\ summary.processed = tracker.processed
        /\ summary.total = Len(filtered)
        /\ summary.output = tracker.total_output
        /\ summary.failed = tracker.failed

\* the keys of the items for which a worker of this run put a Produced signal
\* (a count >= 0) on the progress channel
ProducedBy(w) ==
    {BatchOf(w)[wlog[w][k].i] :
        k \in {m \in 1..Len(wlog[w]) : ~wlog[w][m].done /\ wlog[w][m].n >= 0}}

ProducedKeys == UNION {ProducedBy(w) : w \in 1..Len(batches)}

\* the items a run started again on the same item list and the output file as
\* it is now would hand to its workers (line 826)
ResumedItems == filter_items_for_resume(items_to_scrape, outfile)

\* C21 (as stated): when a run has ended, no item for which a worker put a
\* Produced signal, Produced(0) included, is among the items a resumed run
\* hands to its workers.
C21_AsStated ==
    (ppc = "run" /\ sup_pc = "returned") =>
        \A key \in ProducedKeys : key \notin Range(ResumedItems)

\* C22 (as stated): the sizes of any two batches returned by
\* split_items_into_batches differ by at most one item.
C22_AsStated ==
    ppc = "partitioned" =>
        \A a, b \in 1..Len(batches) : Len(batches[a]) - Len(batches[b]) <= 1

\* the run has returned and every worker it started failed to initialise
TotalInitFailure ==
    /\ ppc = "run"
    /\ sup_pc = "returned"
    /\ nstarted > 0
    /\ \A w \in 1..nstarted : InitFailed(w)

\* C23 (as stated): the exit outcome of a run that has returned is non-zero
\* when every worker failed to initialise its driver, and 0 on normal
\* completion or when nothing was left after resume filtering.
C23_AsStated ==
    (ppc = "run" /\ sup_pc = "returned") =>
        IF TotalInitFailure THEN ExitStatus # 0 ELSE ExitStatus = 0

\* the supervisor takes a message off the progress channel
TakesSignal ==
    /\ ppc = "run"
    /\ sup_pc = "monitor"
    /\ progress_queue # <<>>
    /\ progress_queue' = Tail(progress_queue)

\* the counters after the signal at the head of the progress channel
CountersAfterSignal ==
    LET m == Head(progress_queue)
    IN  IF m.done THEN tracker' = tracker
        ELSE IF m.n = -1
        THEN /\ tracker'.processed = tracker.processed + 1
             /\ tracker'.failed = tracker.failed + 1
             /\ tracker'.total_output = tracker.total_output
        ELSE /\ m.n >= 0
             /\ tracker'.processed = tracker.processed + 1
             /\ tracker'.failed = tracker.failed
             /\ tracker'.total_output = tracker.total_output + m.n

\* C24: every signal the supervisor takes off the progress channel changes the
\* counters as follows and in no other way: Produced(count), count >= 0, adds
\* 1 to processed and count to total_output; Failed adds 1 to processed and to
\* failed; 'DONE' changes no counter (it is counted in completed_processes).
C24_UpdateFrame ==
    [][/\ TakesSignal => CountersAfterSignal
       /\ (TakesSignal /\ Head(progress_queue).done) =>
              completed_processes' = completed_processes + 1
       /\ (TakesSignal /\ ~Head(progress_queue).done) =>
              completed_processes' = completed_processes]_vars

\* a Produced(MaxRecords), a Failed and a 'DONE' have been taken
C24_Witness ==
    /\ ppc = "run"
    /\ tracker = [processed |-> 2, total_output |-> MaxRecords, failed |-> 1]
    /\ completed_processes = 1

Started == {w \in Procs : wpc[w] # "notstarted"}

\* C26: the logger and the writer were started before any worker; the workers
\* started are those of identities 1..nstarted, at most one per batch and one
\* for every batch once the supervisor monitors; the worker of identity i
\* works on the i-th batch.
C26_StartOrder ==
    ppc = "run" =>
        /\ Started # {} => (lpc # "notstarted" /\ owpc # "notstarted")
        /\ Started = 1..nstarted
        /\ nstarted <= Len(batches)
        /\ sup_pc = "monitor" => nstarted = Len(batches)
        /\ \A r \in pushed : r.w \in 1..nstarted /\ batches[r.w][r.i] = r.key

\* two batches, both workers started, the second has pushed a record
C26_Witness ==
    /\ ppc = "run"
    /\ Len(batches) = 2
    /\ nstarted = 2
    /\ batches[1] # batches[2]
    /\ \E r \in pushed : r.w = 2

RowsOf(w) == SelectSeq(outfile.rows, LAMBDA r : ~r.hdr /\ r.w = w)

\* the order in which a worker pushes its records: by item, then by number
PushedBefore(a, b) == a.i < b.i \/ (a.i = b.i /\ a.j < b.j)

\* C28: for every worker, the rows of its records are in the output file in
\* the order the worker pushed them, without gap: a row is preceded by the
\* rows of all records the worker pushed before it.
C28_PerWorkerOrder ==
    ppc = "run" =>
        \A w \in Procs :
            LET rs == RowsOf(w)
            IN  /\ \A x, y \in 1..Len(rs) : x < y => PushedBefore(rs[x], rs[y])
                /\ \A x \in 1..Len(rs) : \A r \in pushed :
                      (r.w = w /\ PushedBefore(r, rs[x])) =>
                          \E y \in 1..(x - 1) :
                              rs[y] = DataRow(r.key, r.w, r.i, r.j)

\* the file holds MaxRecords rows of worker 1 after a row of worker 2
C28_Witness ==
    /\ ppc = "run"
    /\ Len(RowsOf(1)) = MaxRecords
    /\ Len(RowsOf(2)) >= 1
    /\ \E x, y \in 1..Len(outfile.rows) :
          /\ x < y
          /\ ~outfile.rows[x].hdr /\ outfile.rows[x].w = 2
          /\ ~outfile.rows[y].hdr /\ outfile.rows[y].w = 1

\* the entries of a worker's history that are signals of an item's handling
ItemSignals(w) ==
    SelectSeq(wlog[w], LAMBDA e : e.cause \in ItemCauses)

\* C29: a worker handles the items of its batch in batch order, one at a time:
\* the signals of the items' handling come in the order of the positions
\* 1, 2, ..., and while the worker is at position p every earlier position
\* has been signalled and no record of a later position has been pushed.
C29_BatchOrder ==
    \A w \in Procs :
        /\ \A k \in 1..Len(ItemSignals(w)) : ItemSignals(w)[k].i = k
        /\ wpc[w] \in {"loop", "signal"} =>
              /\ widx[w] <= Len(BatchOf(w))
              /\ Len(ItemSignals(w)) = widx[w] - 1
              /\ \A r \in pushed : r.w = w => r.i <= widx[w]
        /\ \A r \in pushed : r.w = w => r.i <= Len(ItemSignals(w)) + 1

\* a worker has pushed the records of its last item, all earlier items
\* signalled, the last one not yet
C29_Witness ==
    \E w \in Procs :
        /\ wpc[w] = "signal"
        /\ widx[w] = MaxItems
        /\ Len(ItemSignals(w)) = MaxItems - 1
        /\ PushedFor(w, MaxItems) # {}

\* C30: ProgressTracker.update logs a summary on an update only if more than
\* 10 seconds passed since the summary it logged before, or the processed
\* input items have reached the total; and the update that makes the
\* processed input items equal to the total always logs one.
C30_SummaryTiming ==
    /\ \A i \in 2..Len(emitted) :
            \/ emitted[i].at - emitted[i - 1].at > LogInterval
            \/ emitted[i].s.processed >= total_input_items
    /\ \A i \in 1..Len(emitted) : emitted[i].s.logged
    /\ (ppc = "tracker" /\ tracker.processed >= total_input_items) =>
            \E i \in 1..Len(emitted) :
                emitted[i].s.processed = total_input_items

\* the second update came within 10 seconds of the first and logged nothing,
\* the third reached the total within 10 seconds and logged
C30_Witness ==
    /\ ppc = "tracker"
    /\ total_input_items = 3
    /\ tracker.processed = 3
    /\ Len(emitted) = 2
    /\ emitted[1].s.processed = 1
    /\ emitted[2].s.processed = 3
    /\ emitted[2].at - emitted[1].at <= LogInterval

\* C31: once the supervisor has called stop() on the OutputWriter or on the
\* LoggerProcess, the next loop iteration of that satellite process sees
\* should_stop set and leaves its loop, whether or not it was sent a sentinel.
C31_AsStated ==
    [][/\ (should_stop.sup_writer /\ WriterGet) => owpc' = "exited"
       /\ (should_stop.sup_logger /\ LoggerGet) => lpc' = "exited"]_vars

\* C32: when a run ends after every worker's Completed signal was received and
\* no append failed, the number of rows the OutputWriter wrote during the run
\* equals the tracker's final total_output_items.
C32_AsStated ==
    (AllCompleted /\ sup_pc = "returned") => items_written = tracker.total_output

\* C33: for every non-empty item list and n >= 1, split_items_into_batches
\* returns exactly min(len(items), n) batches, every batch but the last has
\* exactly max(1, len(items) div n) items, and the last batch holds all the
\* remaining items.
C33_BatchCountAndSizes ==
    (ppc = "partitioned" /\ items_to_scrape # <<>>) =>
        LET len == Len(items_to_scrape)
            size == Max(1, len \div num_processes)
            last == Len(batches)
        IN  /\ last = Min(len, num_processes)
            /\ \A k \in 1..(last - 1) : Len(batches[k]) = size
            /\ batches[last] = SubSeq(items_to_scrape, (last - 1) * size + 1, len)

\* five items over three processes: the last batch takes three items
C33_Witness ==
    /\ ppc = "partitioned"
    /\ Len(items_to_scrape) = MaxSplitItems
    /\ num_processes = MaxSplitProcs
    /\ Len(batches) = MaxSplitProcs
    /\ Len(batches[MaxSplitProcs]) > Len(batches[1]) + 1

\* C34: in every reachable state of a run the tracker's counters satisfy
\* 0 <= failed_items <= processed_input_items <= total_input_items, the number
\* of filtered input items.
C34_AsStated ==
    ppc = "run" =>
        /\ 0 <= tracker.failed
        /\ tracker.failed <= tracker.processed
        /\ tracker.processed <= Len(filtered)

\* C35: in every reachable state the tracker's total_output_items is at most
\* the number of records the workers have put on the result channel so far.
C35_CountedWerePushed ==
    ppc = "run" => tracker.total_output <= Cardinality(pushed)

\* records of one item are counted while another pushed record is not yet
C35_Witness ==
    /\ ppc = "run"
    /\ tracker.total_output >= 1
    /\ Cardinality(pushed) > tracker.total_output

\* C36: when run_multiprocess_scraper has returned, no worker process it
\* started is still running, whichever way the run ended.
C36_AsStated ==
    (ppc = "run" /\ sup_pc = "returned") => \A w \in Procs : ~Alive(w)

\* C37: the resume filter excludes an item only if the item was fully
\* persisted: when a run has ended with only some of the records pushed for an
\* item written to the output file, a resumed run processes that item again.
C37_AsStated ==
    (ppc = "run" /\ sup_pc = "returned") =>
        \A r \in pushed :
            (~Persisted(r) /\ \E q \in PushedFor(r.w, r.i) : Persisted(q))
                => r.key \in Range(ResumedItems)

\* C38: every log event put on the log channel during a run is written by the
\* LoggerProcess: an event on the channel has a running logger in front of it
\* and no stop sentinel before it.
C38_AsStated ==
    ppc = "run" =>
        \A k \in 1..Len(log_queue) :
            log_queue[k] # "None" =>
                /\ lpc = "running"
                /\ \A m \in 1..(k - 1) : log_queue[m] # "None"

\* the supervisor has left run_multiprocess_scraper after a KeyboardInterrupt
InterruptedRunOver ==
    /\ ppc = "run"
    /\ interrupt # "none"
    /\ sup_pc \in {"returned", "raised"}

\* C39: after a KeyboardInterrupt in the supervisor at any point after workers
\* were started, every worker has been waited for, terminated and if needed
\* killed, the OutputWriter and the LoggerProcess have been stopped, and the
\* run function has returned.
C39_AsStated ==
    InterruptedRunOver =>
        /\ sup_pc = "returned"
        /\ joinidx > nstarted
        /\ \A w \in Procs : ~Alive(w)
        /\ owpc # "running" /\ lpc # "running"

====
